---- MODULE Spec2Model ----
(***************************************************************************)
(* Model of itus_data_udf/daily_data_udf.py: the spreadsheet functions     *)
(* that read a local SQLite file through an lru_cache'd executor and are   *)
(* wrapped by the log_call decorator.                                      *)
(*                                                                         *)
(* Text is a sequence of one-character strings, so that strip(), strptime  *)
(* and strftime are computed and not assumed.  A Python value is a record  *)
(* [t, n, s]: None, a number (the float n.0 a spreadsheet passes) or text. *)
(***************************************************************************)
EXTENDS Integers, Sequences, FiniteSets, TLC

VARIABLES
    DATE_FORMAT,   \* config value read at import (line 30), fixed afterwards
    dbExists,      \* os.path.exists(DB_PATH)
    db,            \* rows of TABLE_NAME in the data file, in rowid order
    memo,          \* lru_cache of _cached_query: entries [key, df, df0, used], least recently used first
    log,           \* the log file: how many timing lines and call records it holds,
                   \* and the lines the last call appended
    openConns,     \* sqlite3 connections currently open
    execCalls,     \* total _run_query_df calls so far
    last,          \* the last public call: name, arguments, what the body did, what the caller got
    ncalls         \* number of public calls made since the initial state

vars == <<DATE_FORMAT, dbExists, db, memo, log, openConns, execCalls, last, ncalls>>

-----------------------------------------------------------------------------
(* Python values *)

\* the element of a one-element set: The({e(x) : x \in {v}}) is e(v), with v
\* computed once however often e uses x
The(S) == CHOOSE x \in S : TRUE

NoneV == [t |-> "none", n |-> 0, s |-> <<>>]
Num(k) == [t |-> "num", n |-> k, s |-> <<>>]
Text(chars) == [t |-> "text", n |-> 0, s |-> chars]

Digits == <<"0", "1", "2", "3", "4", "5", "6", "7", "8", "9">>
IsDigit(c) == \E i \in 1..10 : Digits[i] = c
DigitVal(c) == (CHOOSE i \in 1..10 : Digits[i] = c) - 1

\* str.strip() strips leading and trailing whitespace
IsSpace(c) == c \in {" ", "\t", "\n"}

RECURSIVE lstrip(_)
lstrip(s) == IF s # <<>> /\ IsSpace(Head(s)) THEN lstrip(Tail(s)) ELSE s

RECURSIVE rstrip(_)
rstrip(s) ==
    IF s # <<>> /\ IsSpace(s[Len(s)]) THEN rstrip(SubSeq(s, 1, Len(s) - 1)) ELSE s

strip(s) == rstrip(lstrip(s))

\* decimal rendering of a natural number, as str(int) and %d-style padding do
RECURSIVE IntToText(_)
IntToText(k) ==
    IF k < 10 THEN <<Digits[k + 1]>>
    ELSE IntToText(k \div 10) \o <<Digits[(k % 10) + 1]>>

RECURSIVE TextToInt(_)
TextToInt(s) ==
    IF s = <<>> THEN 0
    ELSE 10 * TextToInt(SubSeq(s, 1, Len(s) - 1)) + DigitVal(s[Len(s)])

AllDigits(s) == s # <<>> /\ \A i \in 1..Len(s) : IsDigit(s[i])

RECURSIVE ZeroPad(_, _)
ZeroPad(s, width) == IF Len(s) >= width THEN s ELSE ZeroPad(<<"0">> \o s, width)

\* str(v): None -> "None", the float n.0 -> "n.0", text -> itself
str(v) ==
    CASE v.t = "none" -> <<"N", "o", "n", "e">>
      [] v.t = "num" -> IntToText(v.n) \o <<".", "0">>
      [] OTHER -> v.s

Contains(s, sub) ==
    \E i \in 0..(Len(s) - Len(sub)) : SubSeq(s, i + 1, i + Len(sub)) = sub

-----------------------------------------------------------------------------
(* Failures and outcomes *)

NoError == [type |-> "", msg |-> "", arg |-> ""]
Error(type, msg, arg) == [type |-> type, msg |-> msg, arg |-> arg]

\* Python objects a call hands back: a DataFrame (header and rows), a list of
\* rows, or a scalar; NoTable stands where a call raised
DataFrame(columns, rows) == [kind |-> "frame", columns |-> columns, rows |-> rows]
List2D(rows) == [kind |-> "list", columns |-> <<>>, rows |-> rows]
Scalar(v) == [kind |-> "scalar", columns |-> <<>>, rows |-> <<<<v>>>>]
NoTable == [kind |-> "none", columns |-> <<>>, rows |-> <<>>]

\* what a call did: returned `value`, or raised `error`
Returned(value) == [raised |-> FALSE, value |-> value, error |-> NoError]
Raised(error) == [raised |-> TRUE, value |-> NoTable, error |-> error]

-----------------------------------------------------------------------------
(* Input validation and date formatting *)

\* a validation that forgets to strip: only None and "" count as missing
IsBlankUnstripped(v) == v.t = "none" \/ str(v) = <<>>

IsBlank(v) == v.t = "none" \/ strip(str(v)) = <<>>

\* _validate_inputs(**kwargs): names and values in keyword order; the first
\* blank value raises, naming its keyword
RECURSIVE _validate_inputs(_, _)
_validate_inputs(names, values) ==
    IF names = <<>> THEN NoError
    ELSE IF IsBlank(Head(values))
         THEN Error("ValueError", "Missing required input", Head(names))
         ELSE _validate_inputs(Tail(names), Tail(values))

IsLeap(y) == (y % 4 = 0 /\ y % 100 # 0) \/ y % 400 = 0

DaysInMonth(y, m) ==
    CASE m \in {4, 6, 9, 11} -> 30
      [] m = 2 -> IF IsLeap(y) THEN 29 ELSE 28
      [] OTHER -> 31

\* positions of "-" in s
Dashes(s) == {i \in 1..Len(s) : s[i] = "-"}

\* %m: 1[0-2] | 0[1-9] | [1-9]
MonthText(p) == AllDigits(p) /\ Len(p) \in {1, 2} /\ TextToInt(p) \in 1..12

\* %d: 3[01] | [12]\d | 0[1-9] | [1-9] | " "[1-9]
DayText(p) ==
    \/ AllDigits(p) /\ Len(p) \in {1, 2} /\ TextToInt(p) \in 1..31
    \/ Len(p) = 2 /\ p[1] = " " /\ IsDigit(p[2]) /\ p[2] # "0"

DayVal(p) == IF p[1] = " " THEN DigitVal(p[2]) ELSE TextToInt(p)

\* datetime.strptime(s, "%Y-%m-%d"): [ok, y, m, d]; ok = FALSE is ValueError
strptime(s) ==
    LET bad == [ok |-> FALSE, y |-> 0, m |-> 0, d |-> 0]
        \* year, month and day parts yp, mp, dp
        parsed(yp, mp, dp) ==
            IF ~(Len(yp) = 4 /\ AllDigits(yp) /\ MonthText(mp) /\ DayText(dp)) THEN bad
            ELSE The({IF y >= 1 /\ d <= DaysInMonth(y, m)
                      THEN [ok |-> TRUE, y |-> y, m |-> m, d |-> d]
                      ELSE bad
                      : y \in {TextToInt(yp)}, m \in {TextToInt(mp)}, d \in {DayVal(dp)}})
        \* first and last dash at i and k
        split(i, k) ==
            The({parsed(yp, mp, dp) : yp \in {SubSeq(s, 1, i - 1)},
                                      mp \in {SubSeq(s, i + 1, k - 1)},
                                      dp \in {SubSeq(s, k + 1, Len(s))}})
    IN The({IF Cardinality(ds) # 2 THEN bad
            ELSE The({split(i, k) : i \in {i \in ds : \A j \in ds : i <= j},
                                    k \in {k \in ds : \A j \in ds : k >= j}})
            : ds \in {Dashes(s)}})

\* dt.strftime(fmt): fmt is a sequence of directives and literal characters
RECURSIVE strftime(_, _)
strftime(dt, fmt) ==
    IF fmt = <<>> THEN <<>>
    ELSE (CASE Head(fmt) = "%Y" -> ZeroPad(IntToText(dt.y), 4)
            [] Head(fmt) = "%m" -> ZeroPad(IntToText(dt.m), 2)
            [] Head(fmt) = "%d" -> ZeroPad(IntToText(dt.d), 2)
            [] OTHER -> <<Head(fmt)>>) \o strftime(dt, Tail(fmt))

ISO_FORMAT == <<"%Y", "-", "%m", "-", "%d">>

\* _format_date_for_db(date_value): text in, text out
_format_date_for_db(date_value) ==
    The({The({IF dt.ok THEN strftime(dt, ISO_FORMAT) ELSE s : dt \in {strptime(s)}})
         : s \in {strip(str(date_value))}})

\* _format_date_for_excel(date_value) under the configured display format
_format_date_for_excel(date_value, fmt) ==
    The({The({IF dt.ok THEN strftime(dt, fmt) ELSE s : dt \in {strptime(s)}})
         : s \in {strip(str(date_value))}})

-----------------------------------------------------------------------------
(* The data file: one table, rows in rowid order *)

Columns == {"accord_code", "date", "sector", "company_name", "mcap_category", "pe"}

ColumnText ==
    [accord_code |-> <<"a", "c", "c", "o", "r", "d", "_", "c", "o", "d", "e">>,
     date |-> <<"d", "a", "t", "e">>,
     sector |-> <<"s", "e", "c", "t", "o", "r">>,
     company_name |-> <<"c", "o", "m", "p", "a", "n", "y", "_", "n", "a", "m", "e">>,
     mcap_category |-> <<"m", "c", "a", "p", "_", "c", "a", "t", "e", "g", "o", "r", "y">>,
     pe |-> <<"p", "e">>]

Row(code, date, sector, name, mcap, pe) ==
    [accord_code |-> Num(code), date |-> Text(date), sector |-> Text(sector),
     company_name |-> Text(name), mcap_category |-> Text(mcap), pe |-> Num(pe)]

D15 == <<"2", "0", "2", "4", "-", "0", "1", "-", "1", "5">>
D16 == <<"2", "0", "2", "4", "-", "0", "1", "-", "1", "6">>
Tech == <<"T", "e", "c", "h">>
Acme == <<"A", "c", "m", "e">>
Beta == <<"B", "e", "t", "a">>
Large == <<"L", "a", "r", "g", "e">>

\* contents the data file takes in the model: the file as first read, and the
\* file after its maintainer has rewritten it (a value changed, rows dropped)
DataFiles ==
    << << Row(1001, D15, Tech, Acme, Large, 18),
          Row(1002, D15, Tech, Beta, Large, 25),
          Row(1001, D16, Tech, Acme, Large, 19) >>,
       << Row(1001, D15, Tech, Acme, Large, 21) >> >>

\* BINARY collation of SQLite text: byte order of the characters
Ascii ==
    <<"\t", "\n", " ", "-", ".", "/", "0", "1", "2", "3", "4", "5", "6", "7", "8", "9",
      ":", "A", "B", "L", "N", "T", "_", "a", "b", "c", "d", "e", "g", "h", "m", "n",
      "o", "p", "r", "s", "t", "y", "z">>
CharCode(c) == CHOOSE i \in 1..Len(Ascii) : Ascii[i] = c

RECURSIVE TextLE(_, _)
TextLE(a, b) ==
    IF a = <<>> THEN TRUE
    ELSE IF b = <<>> THEN FALSE
    ELSE IF Head(a) = Head(b) THEN TextLE(Tail(a), Tail(b))
    ELSE CharCode(Head(a)) < CharCode(Head(b))

\* SQLite's ordering of two stored values: numbers before text, then by value
ValueLE(a, b) ==
    CASE a.t = "num" /\ b.t = "num" -> a.n <= b.n
      [] a.t = "num" -> TRUE
      [] b.t = "num" -> FALSE
      [] OTHER -> TextLE(a.s, b.s)

\* ORDER BY col [DESC]: insertion of each row after the rows it does not precede
RECURSIVE Insert(_, _, _, _)
Insert(r, sorted, col, desc) ==
    IF sorted = <<>> THEN <<r>>
    ELSE LET h == Head(sorted)
             before == IF desc THEN ~ValueLE(r[col], h[col]) ELSE ~ValueLE(h[col], r[col])
         IN IF before THEN <<r>> \o sorted
            ELSE <<h>> \o Insert(r, Tail(sorted), col, desc)

RECURSIVE OrderBy(_, _, _)
OrderBy(rows, col, desc) ==
    IF rows = <<>> THEN <<>>
    ELSE The({Insert(rows[Len(rows)], sorted, col, desc)
              : sorted \in {OrderBy(SubSeq(rows, 1, Len(rows) - 1), col, desc)}})

-----------------------------------------------------------------------------
(* SQL statements: the text is one of six templates with the field name   *)
(* interpolated; two texts are equal iff template and field text are.      *)

Sql(shape, field) == [shape |-> shape, field |-> field]
Key(sql, params) == [sql |-> sql, params |-> params]

\* the column a field text names, "" when the table has no such column
FieldColumn(field) ==
    The({IF \E c \in Columns : ColumnText[c] = name
         THEN CHOOSE c \in Columns : ColumnText[c] = name
         ELSE ""
         : name \in {strip(field)}})

Project(rows, cols) ==
    [i \in 1..Len(rows) |-> The({[j \in 1..Len(cols) |-> r[cols[j]]] : r \in {rows[i]}})]

\* WHERE clause of each template, on one row
Matches(shape, params, r) ==
    CASE shape = "point" -> r.accord_code = params[1] /\ r.date = params[2]
      [] shape = "series" ->
           /\ r.accord_code = params[1]
           /\ ValueLE(params[2], r.date) /\ ValueLE(r.date, params[3])
      [] shape = "matrix" -> r.date = params[1]
      [] shape = "all" -> r.accord_code = params[1]
      [] shape = "mcap" -> r.mcap_category = params[1] /\ r.date = params[2]
      [] OTHER -> r.sector = params[1] /\ r.date = params[2]

\* pd.read_sql_query(sql, conn, params): the table, or the failure SQLite reports
read_sql_query(sql, params, table) ==
    LET \* SELECT cols ... ORDER BY col [DESC] over the selected rows
        Select(sel, cols, col, desc) ==
            The({DataFrame(cols, Project(sorted, cols)) : sorted \in {OrderBy(sel, col, desc)}})
        \* f the column the field names, sel the rows the WHERE clause keeps
        Query(f, sel) ==
            IF sql.shape \in {"point", "series", "matrix", "all"} /\ f = ""
            THEN Raised(Error("DatabaseError", "no such column", "field"))
            ELSE Returned(
              CASE sql.shape = "point" -> DataFrame(<<f>>, Project(sel, <<f>>))
                [] sql.shape = "series" -> Select(sel, <<"date", f>>, "date", FALSE)
                [] sql.shape = "matrix" ->
                     Select(sel, <<"accord_code", "company_name", "sector", "mcap_category", f>>,
                            "accord_code", FALSE)
                [] sql.shape = "all" -> Select(sel, <<"date", f>>, "date", FALSE)
                [] sql.shape = "mcap" ->
                     Select(sel, <<"accord_code", "company_name", "sector", "pe">>, "pe", TRUE)
                [] OTHER ->
                     Select(sel, <<"accord_code", "company_name", "mcap_category", "pe">>,
                            "pe", TRUE))
    IN The({Query(f, sel) : f \in {FieldColumn(sql.field)},
                            sel \in {SelectSeq(table, LAMBDA r : Matches(sql.shape, params, r))}})

-----------------------------------------------------------------------------
(* Connection, cache and executor *)

maxsize == 128

\* the data file as a query finds it
File(exists, table) == [exists |-> exists, table |-> table]

\* a body that closes the connection after the read instead of in `finally`
QueryBodyWithoutFinally(file, sql, params) ==
    IF ~file.exists
    THEN [out |-> Raised(Error("FileNotFoundError", "SQLite DB not found at path", "DB_PATH")),
          opened |-> 0, closed |-> 0]
    ELSE LET out == read_sql_query(sql, params, file.table)
         IN [out |-> out, opened |-> 1, closed |-> IF out.raised THEN 0 ELSE 1]

\* _cached_query's body (a miss): _get_connection, read, close in `finally`.
\* [out, opened, closed]
QueryBody(file, sql, params) ==
    IF ~file.exists
    THEN [out |-> Raised(Error("FileNotFoundError", "SQLite DB not found at path", "DB_PATH")),
          opened |-> 0, closed |-> 0]
    ELSE [out |-> read_sql_query(sql, params, file.table), opened |-> 1, closed |-> 1]

Position(cache, key) ==
    IF \E i \in 1..Len(cache) : cache[i].key = key
    THEN CHOOSE i \in 1..Len(cache) : cache[i].key = key
    ELSE 0

Without(cache, i) == SubSeq(cache, 1, i - 1) \o SubSeq(cache, i + 1, Len(cache))

\* a cache that keeps insertion order: a hit moves nothing
TouchNothing(cache, i) == cache

\* a hit moves the entry to the most-recently-used end
Touch(cache, i) == Without(cache, i) \o <<cache[i]>>

\* a stored miss evicts the least recently used entry when the cache is full.
\* df0 remembers the table as it was stored, used the time of the last use.
Store(cache, key, df, now) ==
    (IF Len(cache) >= maxsize THEN Tail(cache) ELSE cache)
        \o <<[key |-> key, df |-> df, df0 |-> df, used |-> now]>>

\* @lru_cache(maxsize=128) _cached_query(sql, params) on cache `cache` at
\* time `now` (the number of this executor call), the data file being `file`:
\* [out, cache, hit, opened, closed]
_cached_query(file, cache, now, sql, params) ==
    LET Hit(i) ==
            [out |-> Returned(cache[i].df),
             cache |-> Touch([cache EXCEPT ![i].used = now], i),
             hit |-> TRUE, opened |-> 0, closed |-> 0]
        Miss(key, b) ==
            [out |-> b.out,
             cache |-> IF b.out.raised THEN cache ELSE Store(cache, key, b.out.value, now),
             hit |-> FALSE, opened |-> b.opened, closed |-> b.closed]
    IN The({The({IF i > 0 THEN Hit(i)
                 ELSE The({Miss(key, b) : b \in {QueryBody(file, sql, params)}})
                 : i \in {Position(cache, key)}})
            : key \in {Key(sql, params)}})

TimingLine(params) ==
    [kind |-> "SQL", fn |-> "", args |-> params, status |-> "", error |-> NoError]

\* an executor that logs in `finally`: a timing line also when the query raised
TimingLinesAlways(out, params) == <<TimingLine(params)>>

\* the timing lines _run_query_df writes given what _cached_query did
TimingLines(out, params) == IF out.raised THEN <<>> ELSE <<TimingLine(params)>>

\* _run_query_df(sql, params): [called, key, out, cache, hit, opened, closed, lines]
_run_query_df(cache, sql, params) ==
    The({[called |-> TRUE, key |-> Key(sql, params), out |-> c.out, cache |-> c.cache,
          hit |-> c.hit, opened |-> c.opened, closed |-> c.closed,
          lines |-> TimingLines(c.out, params)]
         : c \in {_cached_query(File(dbExists, db), cache, execCalls + 1, sql, params)}})

\* no executor call was made
NoExec(cache) ==
    [called |-> FALSE, key |-> Key(Sql("", <<>>), <<>>), out |-> Raised(NoError),
     cache |-> cache, hit |-> FALSE, opened |-> 0, closed |-> 0, lines |-> <<>>]

-----------------------------------------------------------------------------
(* The call logger *)

CallRecord(fn, args, status, error) ==
    [kind |-> "CALL", fn |-> fn, args |-> args, status |-> status, error |-> error]

\* a wrapper whose `except` lacks the `raise`: the failure is recorded and
\* the caller gets None
log_call_swallowing(fn, args, out) ==
    [returned |-> IF out.raised THEN Returned(Scalar(NoneV)) ELSE out,
     records |-> <<CallRecord(fn, args,
                              IF out.raised THEN "FAILED" ELSE "SUCCESS",
                              IF out.raised /\ out.error.msg # "" THEN out.error ELSE NoError)>>]

\* log_call's wrapper around a body that did `out`: what the caller gets and
\* the records written in `finally`
log_call(fn, args, out) ==
    [returned |-> out,
     records |-> <<CallRecord(fn, args,
                              IF out.raised THEN "FAILED" ELSE "SUCCESS",
                              IF out.raised /\ out.error.msg # "" THEN out.error ELSE NoError)>>]

\* a function registered without @log_call
unwrapped(fn, args, out) == [returned |-> out, records |-> <<>>]

-----------------------------------------------------------------------------
(* The public functions.  Each body yields [out, ex, cache]: what it did,   *)
(* the executor call it made (NoExec if none) and the cache it leaves.      *)

\* int(float(v)) for a number or for decimal text: [ok, n]
IntOfFloat(v) ==
    LET digits(p) == \A i \in 1..Len(p) : IsDigit(p[i])
        \* integer part ip and fraction fp of a text with `dots` decimal points
        float(dots, ip, fp) ==
            IF dots <= 1 /\ digits(ip) /\ digits(fp) /\ Len(ip) + Len(fp) > 0
            THEN [ok |-> TRUE, n |-> TextToInt(ip)]
            ELSE [ok |-> FALSE, n |-> 0]
        \* the text s, whose first decimal point (or end) is at d
        split(s, dots, d) ==
            The({float(Cardinality(dots), ip, fp) : ip \in {SubSeq(s, 1, d - 1)},
                                                    fp \in {SubSeq(s, d + 1, Len(s))}})
        parse(s) ==
            The({split(s, dots, IF dots = {} THEN Len(s) + 1 ELSE CHOOSE i \in dots : TRUE)
                 : dots \in {{i \in 1..Len(s) : s[i] = "."}}})
    IN IF v.t = "num" THEN [ok |-> TRUE, n |-> v.n]
       ELSE The({parse(s) : s \in {strip(str(v))}})

FloatError == Error("ValueError", "could not convert string to float", "")

NoDataFor == <<"N", "o", " ", "d", "a", "t", "a", " ", "f", "o", "u", "n", "d", " ", "f", "o", "r", " ">>
On == <<" ", "o", "n", " ">>
Between == <<" ", "b", "e", "t", "w", "e", "e", "n", " ">>
And == <<" ", "a", "n", "d", " ">>
SectorWord == <<"s", "e", "c", "t", "o", "r", " ">>
ClearedText == <<"C", "a", "c", "h", "e", " ", "c", "l", "e", "a", "r", "e", "d", " ", "s", "u", "c", "c", "e", "s", "s", "f", "u", "l", "l", "y", ".">>

Message(chars) == List2D(<<<<Text(chars)>>>>)

Header(df) == [j \in 1..Len(df.columns) |-> Text(ColumnText[df.columns[j]])]

\* [df.columns.tolist()] + df.values.tolist()
ToList(df) == List2D(<<Header(df)>> \o df.rows)

ColumnIndex(df, c) == CHOOSE j \in 1..Len(df.columns) : df.columns[j] = c

\* df['date'] = df['date'].apply(_format_date_for_excel)
ApplyDateFormat(df, fmt) ==
    LET j == ColumnIndex(df, "date")
    IN DataFrame(df.columns,
         [i \in 1..Len(df.rows) |->
            [df.rows[i] EXCEPT ![j] = Text(_format_date_for_excel(df.rows[i][j], fmt))]])

\* df['date'] = formatted_date: overwrites the column, or appends it
SetDateColumn(df, d) ==
    IF \E j \in 1..Len(df.columns) : df.columns[j] = "date"
    THEN DataFrame(df.columns,
           [i \in 1..Len(df.rows) |-> [df.rows[i] EXCEPT ![ColumnIndex(df, "date")] = Text(d)]])
    ELSE DataFrame(df.columns \o <<"date">>,
           [i \in 1..Len(df.rows) |-> df.rows[i] \o <<Text(d)>>])

\* the DataFrame the executor returned is the object the cache holds: an
\* assignment to one of its columns changes the cached table
Assign(cache, key, df) ==
    [i \in 1..Len(cache) |->
        IF cache[i].key = key THEN [cache[i] EXCEPT !.df = df] ELSE cache[i]]

Failed(error) == [out |-> Raised(error), ex |-> NoExec(memo), cache |-> memo]

\* the part of a body after the executor call: a failure of the executor
\* propagates, an empty table gives the message, else `shape` of the table
AfterQuery(ex, msg, df2) ==
    IF ex.out.raised THEN [out |-> Raised(ex.out.error), ex |-> ex, cache |-> ex.cache]
    ELSE IF ex.out.value.rows = <<>>
         THEN [out |-> Returned(Message(msg)), ex |-> ex, cache |-> ex.cache]
         ELSE The({[out |-> Returned(ToList(df)), ex |-> ex,
                    cache |-> Assign(ex.cache, ex.key, df)] : df \in {df2}})

\* a message that leaves the date out
PointResultWithoutDate(df, code, formatted_date) ==
    IF df.rows = <<>>
    THEN Message(NoDataFor \o IntToText(code))
    ELSE List2D(<<<<df.rows[1][1]>>>>)

\* get_daily_data after the query: the message for an empty table, else the
\* first cell, as a 1x1 table
PointResult(df, code, formatted_date) ==
    IF df.rows = <<>>
    THEN Message(NoDataFor \o IntToText(code) \o On \o formatted_date)
    ELSE List2D(<<<<df.rows[1][1]>>>>)

get_daily_data(accord_code, field, date_value) ==
    LET e == _validate_inputs(<<"accord_code", "field", "date_value">>,
                              <<accord_code, field, date_value>>)
        body(code, formatted_date, ex) ==
            IF ex.out.raised
            THEN [out |-> Raised(ex.out.error), ex |-> ex, cache |-> ex.cache]
            ELSE [out |-> Returned(PointResult(ex.out.value, code.n, formatted_date)),
                  ex |-> ex, cache |-> ex.cache]
        query(code, formatted_date) ==
            The({body(code, formatted_date, ex)
                 : ex \in {_run_query_df(memo, Sql("point", str(field)),
                                         <<Num(code.n), Text(formatted_date)>>)}})
    IN IF e # NoError THEN Failed(e)
       ELSE The({IF ~code.ok THEN Failed(FloatError)
                 ELSE The({query(code, formatted_date)
                           : formatted_date \in {_format_date_for_db(date_value)}})
                 : code \in {IntOfFloat(accord_code)}})

get_series(accord_code, field, start_date, end_date) ==
    LET e == _validate_inputs(<<"accord_code", "field", "start_date", "end_date">>,
                              <<accord_code, field, start_date, end_date>>)
        query(code, start_fmt, end_fmt) ==
            The({AfterQuery(ex,
                   NoDataFor \o IntToText(code.n) \o Between \o start_fmt \o And \o end_fmt,
                   ApplyDateFormat(ex.out.value, DATE_FORMAT))
                 : ex \in {_run_query_df(memo, Sql("series", str(field)),
                                         <<Num(code.n), Text(start_fmt), Text(end_fmt)>>)}})
    IN IF e # NoError THEN Failed(e)
       ELSE The({IF ~code.ok THEN Failed(FloatError)
                 ELSE The({query(code, start_fmt, end_fmt)
                           : start_fmt \in {_format_date_for_db(start_date)},
                             end_fmt \in {_format_date_for_db(end_date)}})
                 : code \in {IntOfFloat(accord_code)}})

get_daily_matrix(date_value, field) ==
    LET e == _validate_inputs(<<"date_value", "field">>, <<date_value, field>>)
        body(formatted_date, ex, df) ==
            AfterQuery(ex, NoDataFor \o formatted_date,
              IF \E j \in 1..Len(df.columns) : df.columns[j] = "date"
              THEN ApplyDateFormat(df, DATE_FORMAT) ELSE df)
        query(formatted_date) ==
            The({body(formatted_date, ex, ex.out.value)
                 : ex \in {_run_query_df(memo, Sql("matrix", str(field)),
                                         <<Text(formatted_date)>>)}})
    IN IF e # NoError THEN Failed(e)
       ELSE The({query(formatted_date) : formatted_date \in {_format_date_for_db(date_value)}})

get_all_pe(accord_code, field) ==
    LET e == _validate_inputs(<<"accord_code", "field">>, <<accord_code, field>>)
        query(code) ==
            The({AfterQuery(ex, NoDataFor \o IntToText(code.n),
                            ApplyDateFormat(ex.out.value, DATE_FORMAT))
                 : ex \in {_run_query_df(memo, Sql("all", str(field)), <<Num(code.n)>>)}})
    IN IF e # NoError THEN Failed(e)
       ELSE The({IF ~code.ok THEN Failed(FloatError) ELSE query(code)
                 : code \in {IntOfFloat(accord_code)}})

get_mcap_matrix(mcap_category, date_value) ==
    LET e == _validate_inputs(<<"mcap_category", "date_value">>, <<mcap_category, date_value>>)
        query(formatted_date) ==
            The({AfterQuery(ex, NoDataFor \o str(mcap_category) \o On \o formatted_date,
                            SetDateColumn(ex.out.value, formatted_date))
                 : ex \in {_run_query_df(memo, Sql("mcap", <<>>),
                                         <<mcap_category, Text(formatted_date)>>)}})
    IN IF e # NoError THEN Failed(e)
       ELSE The({query(formatted_date) : formatted_date \in {_format_date_for_db(date_value)}})

get_pe_for_sector(sector, date_value) ==
    LET e == _validate_inputs(<<"sector", "date_value">>, <<sector, date_value>>)
        query(formatted_date) ==
            The({AfterQuery(ex, NoDataFor \o SectorWord \o str(sector) \o On \o formatted_date,
                            SetDateColumn(ex.out.value, formatted_date))
                 : ex \in {_run_query_df(memo, Sql("sector", <<>>),
                                         <<sector, Text(formatted_date)>>)}})
    IN IF e # NoError THEN Failed(e)
       ELSE The({query(formatted_date) : formatted_date \in {_format_date_for_db(date_value)}})

\* a clear that leaves the entries where they are
cache_keep(cache) == cache

\* _cached_query.cache_clear()
cache_clear(cache) == <<>>

clear_cache ==
    [out |-> Returned(Scalar(Text(ClearedText))), ex |-> NoExec(memo),
     cache |-> cache_clear(memo)]

test_add(x, y) ==
    [out |-> Returned(Scalar(Num(x.n + y.n))), ex |-> NoExec(memo), cache |-> memo]

-----------------------------------------------------------------------------
(* The state machine: the host calls one public function at a time; the    *)
(* data file is rewritten or removed by its maintainer between calls.      *)

MaxCalls == 2

DMY_FORMAT == <<"%d", "/", "%m", "/", "%Y">>
DateFormats == {ISO_FORMAT, DMY_FORMAT}

\* arguments the host passes: for each kind of argument the missing forms,
\* well-formed forms and a malformed one
CodeInputs == {NoneV, Num(1001), Text(<<" ", "1", "0", "0", "1", ".", "7", " ">>), Text(<<"a", "b", "c">>)}
FieldInputs == {Text(<<>>), Text(ColumnText.pe), Text(<<"z", "z">>)}
DateInputs == {Text(<<" ">>), Text(<<" ", "2", "0", "2", "4", "-", "1", "-", "1", "5", " ">>), Text(<<"1", "5", "/", "0", "1", "/", "2", "0", "2", "4">>)}
McapInputs == {NoneV, Text(Large)}
SectorInputs == {Text(<<"\t", "\n">>), Text(Tech)}
AddInputs == {Num(1), Num(2)}

\* the argument tuples of one function: a well-formed call `base` with one
\* argument at a time replaced by each input of its kind, and the call with
\* every argument missing
Calls(base, kinds) ==
    UNION {{[base EXCEPT ![i] = v] : v \in kinds[i]} : i \in 1..Len(base)}
        \cup {[i \in 1..Len(base) |-> NoneV]}

DailyCalls ==
    Calls(<<Num(1001), Text(ColumnText.pe), Text(<<" ", "2", "0", "2", "4", "-", "1", "-", "1", "5", " ">>)>>,
          <<CodeInputs, FieldInputs, DateInputs>>)
SeriesCalls ==
    Calls(<<Num(1001), Text(ColumnText.pe), Text(<<" ", "2", "0", "2", "4", "-", "1", "-", "1", "5", " ">>), Text(D16)>>,
          <<CodeInputs, FieldInputs, DateInputs, DateInputs>>)
MatrixCalls ==
    Calls(<<Text(<<" ", "2", "0", "2", "4", "-", "1", "-", "1", "5", " ">>), Text(ColumnText.pe)>>, <<DateInputs, FieldInputs>>)
AllPeCalls == Calls(<<Num(1001), Text(ColumnText.pe)>>, <<CodeInputs, FieldInputs>>)
McapCalls == Calls(<<Text(Large), Text(<<" ", "2", "0", "2", "4", "-", "1", "-", "1", "5", " ">>)>>, <<McapInputs, DateInputs>>)
SectorCalls == Calls(<<Text(Tech), Text(<<" ", "2", "0", "2", "4", "-", "1", "-", "1", "5", " ">>)>>, <<SectorInputs, DateInputs>>)

ExecView(ex) ==
    [called |-> ex.called, key |-> ex.key, out |-> ex.out, hit |-> ex.hit,
     opened |-> ex.opened, closed |-> ex.closed, lines |-> ex.lines]

NoCall ==
    [fn |-> "", args |-> <<>>, inner |-> Raised(NoError), returned |-> Raised(NoError),
     ex |-> ExecView(NoExec(<<>>))]

Init ==
    /\ DATE_FORMAT \in DateFormats
    /\ dbExists = TRUE
    /\ db = DataFiles[1]
    /\ memo = <<>>
    /\ log = [sql |-> 0, call |-> 0, tail |-> <<>>]
    /\ openConns = 0
    /\ execCalls = 0
    /\ last = NoCall
    /\ ncalls = 0

\* logger.info for each of `lines`, in order
LogInfo(file, lines) ==
    [sql |-> file.sql + Cardinality({i \in 1..Len(lines) : lines[i].kind = "SQL"}),
     call |-> file.call + Cardinality({i \in 1..Len(lines) : lines[i].kind = "CALL"}),
     tail |-> lines]

\* the session is within the number of calls explored
CallsLeft == ncalls < MaxCalls

\* one call of public function fn with positional arguments args, whose body
\* did b and whose registration (wrapped by log_call or not) gave w
Public(fn, args, b, w) ==
    /\ memo' = b.cache
    /\ log' = LogInfo(log, b.ex.lines \o w.records)
    /\ openConns' = openConns + b.ex.opened - b.ex.closed
    /\ execCalls' = execCalls + (IF b.ex.called THEN 1 ELSE 0)
    /\ last' = [fn |-> fn, args |-> args, inner |-> b.out, returned |-> w.returned,
                ex |-> ExecView(b.ex)]
    /\ ncalls' = ncalls + 1
    /\ UNCHANGED <<DATE_FORMAT, dbExists, db>>

GetDailyData ==
    /\ CallsLeft
    /\ \E c \in DailyCalls :
           \E b \in {get_daily_data(c[1], c[2], c[3])} :
               \E w \in {log_call("get_daily_data", c, b.out)} : Public("get_daily_data", c, b, w)

GetSeries ==
    /\ CallsLeft
    /\ \E c \in SeriesCalls :
           \E b \in {get_series(c[1], c[2], c[3], c[4])} :
               \E w \in {log_call("get_series", c, b.out)} : Public("get_series", c, b, w)

GetDailyMatrix ==
    /\ CallsLeft
    /\ \E c \in MatrixCalls :
           \E b \in {get_daily_matrix(c[1], c[2])} :
               \E w \in {log_call("get_daily_matrix", c, b.out)} : Public("get_daily_matrix", c, b, w)

GetAllPe ==
    /\ CallsLeft
    /\ \E c \in AllPeCalls :
           \E b \in {get_all_pe(c[1], c[2])} :
               \E w \in {log_call("get_all_pe", c, b.out)} : Public("get_all_pe", c, b, w)

GetMcapMatrix ==
    /\ CallsLeft
    /\ \E c \in McapCalls :
           \E b \in {get_mcap_matrix(c[1], c[2])} :
               \E w \in {log_call("get_mcap_matrix", c, b.out)} : Public("get_mcap_matrix", c, b, w)

GetPeForSector ==
    /\ CallsLeft
    /\ \E c \in SectorCalls :
           \E b \in {get_pe_for_sector(c[1], c[2])} :
               \E w \in {log_call("get_pe_for_sector", c, b.out)} : Public("get_pe_for_sector", c, b, w)

ClearCache ==
    /\ CallsLeft
    /\ \E b \in {clear_cache} :
           \E w \in {log_call("clear_cache", <<>>, b.out)} : Public("clear_cache", <<>>, b, w)

TestAdd ==
    /\ CallsLeft
    /\ \E x \in AddInputs, y \in AddInputs :
           \E b \in {test_add(x, y)} :
               \E w \in {unwrapped("test_add", <<x, y>>, b.out)} : Public("test_add", <<x, y>>, b, w)

\* the data file is rewritten with other contents (or created again)
ReplaceDataFile ==
    /\ \E i \in 1..Len(DataFiles) :
          /\ ~dbExists \/ db # DataFiles[i]
          /\ db' = DataFiles[i]
    /\ dbExists' = TRUE
    /\ UNCHANGED <<DATE_FORMAT, memo, log, openConns, execCalls, last, ncalls>>

\* the data file is removed, and its contents with it
RemoveDataFile ==
    /\ dbExists
    /\ dbExists' = FALSE
    /\ db' = <<>>
    /\ UNCHANGED <<DATE_FORMAT, memo, log, openConns, execCalls, last, ncalls>>

Next ==
    \/ GetDailyData
    \/ GetSeries
    \/ GetDailyMatrix
    \/ GetAllPe
    \/ GetMcapMatrix
    \/ GetPeForSector
    \/ ClearCache
    \/ TestAdd
    \/ ReplaceDataFile
    \/ RemoveDataFile

Spec == Init /\ [][Next]_vars

-----------------------------------------------------------------------------
(* A session whose cache is full: the host has asked for the full history  *)
(* of maxsize companies, company 1001 first, and goes on from there.       *)

WarmCode(i) == IF i = 1 THEN 1001 ELSE i

\* the cache after queries lo..hi of these, the i-th at time i: the keys are
\* distinct and fit, so each query is a miss that appends its entry
RECURSIVE WarmCache(_, _)
WarmCache(lo, hi) ==
    IF lo = hi
    THEN _cached_query(File(TRUE, DataFiles[1]), <<>>, lo, Sql("all", ColumnText.pe),
                       <<Num(WarmCode(lo))>>).cache
    ELSE WarmCache(lo, (lo + hi) \div 2) \o WarmCache((lo + hi) \div 2 + 1, hi)

InitFull ==
    /\ DATE_FORMAT = ISO_FORMAT
    /\ dbExists = TRUE
    /\ db = DataFiles[1]
    /\ memo = WarmCache(1, maxsize)
    /\ log = [sql |-> maxsize, call |-> maxsize, tail |-> <<>>]
    /\ openConns = 0
    /\ execCalls = maxsize
    /\ last = NoCall
    /\ ncalls = 0

\* the operations of that session: point lookups, full histories, rankings by
\* market-cap category, clears, and changes of the data file
NextFull ==
    \/ GetDailyData
    \/ GetAllPe
    \/ GetMcapMatrix
    \/ ClearCache
    \/ ReplaceDataFile
    \/ RemoveDataFile

SpecFull == InitFull /\ [][NextFull]_vars

-----------------------------------------------------------------------------
(* Vocabulary of the properties *)

QueryFns ==
    {"get_daily_data", "get_series", "get_daily_matrix", "get_all_pe", "get_mcap_matrix",
     "get_pe_for_sector"}

PublicFns == QueryFns \cup {"clear_cache", "test_add"}

\* the required arguments of each query function, in order
ArgNames ==
    [get_daily_data |-> <<"accord_code", "field", "date_value">>,
     get_series |-> <<"accord_code", "field", "start_date", "end_date">>,
     get_daily_matrix |-> <<"date_value", "field">>,
     get_all_pe |-> <<"accord_code", "field">>,
     get_mcap_matrix |-> <<"mcap_category", "date_value">>,
     get_pe_for_sector |-> <<"sector", "date_value">>]

\* an argument that is absent, the empty string or only whitespace
Missing(v) ==
    \/ v.t = "none"
    \/ v.t = "text" /\ \A i \in 1..Len(v.s) : v.s[i] \in {" ", "\t", "\n"}

FirstMissing(args) ==
    CHOOSE i \in 1..Len(args) : Missing(args[i]) /\ \A j \in 1..(i - 1) : ~Missing(args[j])

\* this step is a call of a public function
CallStep == ncalls' = ncalls + 1

Cached(cache, key) == \E i \in 1..Len(cache) : cache[i].key = key

NotFound == Error("FileNotFoundError", "SQLite DB not found at path", "DB_PATH")

-----------------------------------------------------------------------------
\* C1: as long as clear_cache has not been called, a key of the memo maps to
\* the table that was stored under it when it was filled: same columns, same
\* cell values.
C1_CacheEntryKeepsItsValue ==
    \A i \in 1..Len(memo) : memo[i].df = memo[i].df0

\* C2: an executor call answered from the memo returns the result of the call
\* that filled the key, opens no connection and still writes its timing line.
C2_RepeatedQuerySameResult ==
    (last.ex.called /\ last.ex.hit) =>
        /\ last.ex.out = Returned(memo[Position(memo, last.ex.key)].df0)
        /\ last.ex.opened = 0
        /\ Len(last.ex.lines) = 1

\* C3: clear_cache leaves the memo empty and returns the confirmation; the
\* first query after it goes to the data file (or fails on its absence) and,
\* when it returns, returns what the file holds now.
C3_ClearThenReread ==
    [][/\ (CallStep /\ last'.fn = "clear_cache") =>
            /\ memo' = <<>>
            /\ last'.returned = Returned(Scalar(Text(ClearedText)))
       /\ (CallStep /\ last.fn = "clear_cache" /\ last'.ex.called) =>
            /\ dbExists => last'.ex.opened = 1
            /\ ~dbExists => last'.ex.out = Raised(NotFound)
            /\ ~last'.ex.out.raised =>
                 last'.ex.out = read_sql_query(last'.ex.key.sql, last'.ex.key.params, db)
      ]_vars

\* a query answered after a clear_cache, for a key that was memoized before
\* it, with a table that differs from the memoized one
C3_Witness ==
    /\ last.ex.called /\ ~last.ex.out.raised
    /\ Len(memo) = 1
    /\ Cached(WarmCache(1, maxsize), last.ex.key)
    /\ \A i \in 1..maxsize :
          WarmCache(1, maxsize)[i].key = last.ex.key
              => WarmCache(1, maxsize)[i].df # last.ex.out.value

\* C4: a query function called with a required argument missing raises
\* "Missing required input" naming the first such argument, and does so before
\* anything else: no executor call, no connection, no timing line, memo as it was.
C4_MissingInputRejected ==
    [][(/\ CallStep
        /\ last'.fn \in QueryFns
        /\ \E i \in 1..Len(last'.args) : Missing(last'.args[i]))
       => /\ last'.returned =
                Raised(Error("ValueError", "Missing required input",
                             ArgNames[last'.fn][FirstMissing(last'.args)]))
          /\ ~last'.ex.called
          /\ last'.ex.opened = 0
          /\ execCalls' = execCalls
          /\ openConns' = openConns
          /\ log'.sql = log.sql
          /\ memo' = memo
      ]_vars

\* get_series refused for its last argument, a whitespace-only end date
C4_Witness ==
    /\ last.fn = "get_series"
    /\ ~Missing(last.args[1]) /\ ~Missing(last.args[2]) /\ ~Missing(last.args[3])
    /\ last.args[4].t = "text" /\ last.args[4].s # <<>> /\ Missing(last.args[4])
    /\ last.returned.raised
    /\ last.returned.error.arg = "end_date"

\* a point lookup whose arguments are present, whose company id is a number
\* and whose field is a column of the table
WellFormedLookup(args) ==
    /\ \A i \in 1..3 : ~Missing(args[i])
    /\ IntOfFloat(args[1]).ok
    /\ FieldColumn(str(args[2])) # ""

\* the records of `table` for the lookup's company and date
Records(table, args) ==
    SelectSeq(table, LAMBDA r : /\ r.accord_code = Num(IntOfFloat(args[1]).n)
                                /\ r.date = Text(_format_date_for_db(args[3])))

\* a 1x1 table whose cell is a message containing the company id and the date
IsNoDataMessage(out, args) ==
    /\ ~out.raised
    /\ out.value.kind = "list"
    /\ Len(out.value.rows) = 1 /\ Len(out.value.rows[1]) = 1
    /\ out.value.rows[1][1].t = "text"
    /\ Contains(out.value.rows[1][1].s, IntToText(IntOfFloat(args[1]).n))
    /\ Contains(out.value.rows[1][1].s, _format_date_for_db(args[3]))

IsValue(out, cell) == out = Returned(List2D(<<<<cell>>>>))

\* C5 as stated: with the data file present, a point lookup with no matching
\* record in the file returns the no-data message, and one with a matching
\* record returns that record's value of the field.
C5_LookupAnswersFromFile ==
    [][(CallStep /\ last'.fn = "get_daily_data" /\ WellFormedLookup(last'.args) /\ dbExists)
       => LET found == Records(db, last'.args)
          IN IF found = <<>>
             THEN IsNoDataMessage(last'.returned, last'.args)
             ELSE IsValue(last'.returned, found[1][FieldColumn(str(last'.args[2]))])
      ]_vars

\* C5 amended: the lookup answers from the table the executor yields for its
\* key: the memoized table when the key is memoized (whatever the file holds
\* now), the file's records otherwise.
C5_LookupAnswersFromExecutor ==
    [][(CallStep /\ last'.fn = "get_daily_data" /\ WellFormedLookup(last'.args))
       => LET key == Key(Sql("point", str(last'.args[2])),
                         <<Num(IntOfFloat(last'.args[1]).n),
                           Text(_format_date_for_db(last'.args[3]))>>)
              found == Records(db, last'.args)
          IN IF Cached(memo, key)
             THEN LET held == memo[Position(memo, key)].df.rows
                  IN IF held = <<>>
                     THEN IsNoDataMessage(last'.returned, last'.args)
                     ELSE IsValue(last'.returned, held[1][1])
             ELSE dbExists =>
                    IF found = <<>>
                    THEN IsNoDataMessage(last'.returned, last'.args)
                    ELSE IsValue(last'.returned, found[1][FieldColumn(str(last'.args[2]))])
      ]_vars

\* a lookup answered from the memo with a value the file no longer holds
C5_Witness ==
    /\ last.fn = "get_daily_data" /\ WellFormedLookup(last.args)
    /\ last.ex.hit /\ dbExists
    /\ Records(db, last.args) # <<>>
    /\ ~IsValue(last.returned, Records(db, last.args)[1].pe)
    /\ last.returned.value.rows[1][1].t = "num"

\* C6: around a wrapped function log_call writes exactly one call record,
\* after the function has finished: SUCCESS and the result handed on
\* unchanged, or FAILED with the failure's message and the same failure raised.
C6_LogCallObservesAndForwards ==
    [][(CallStep /\ last'.fn \in QueryFns \cup {"clear_cache"})
       => /\ log'.call = log.call + 1
          /\ log'.tail # <<>>
          /\ LET r == log'.tail[Len(log'.tail)]
             IN /\ r.kind = "CALL" /\ r.fn = last'.fn /\ r.args = last'.args
                /\ ~last'.inner.raised =>
                     /\ r.status = "SUCCESS" /\ r.error = NoError
                     /\ last'.returned = last'.inner
                /\ last'.inner.raised =>
                     /\ r.status = "FAILED" /\ r.error = last'.inner.error
                     /\ last'.returned = Raised(last'.inner.error)
      ]_vars

\* a wrapped call that failed inside the executor: timing line absent, the
\* FAILED record written, the failure raised to the host
C6_Witness ==
    /\ last.fn = "get_all_pe"
    /\ last.ex.called /\ last.inner.raised
    /\ last.returned.raised /\ last.returned.error.type = "DatabaseError"
    /\ Len(log.tail) = 1 /\ log.tail[1].status = "FAILED"

\* C7 as stated: the log holds as many timing lines as executor calls were made.
C7_TimingLinePerExecutorCall == log.sql = execCalls

\* C7 amended: an executor call that returns, hit or miss, writes one timing
\* line; one that raises writes none.
C7_TimingLinePerReturnedCall ==
    [][/\ execCalls' - execCalls = (IF CallStep /\ last'.ex.called THEN 1 ELSE 0)
       /\ log'.sql - log.sql =
            (IF CallStep /\ last'.ex.called /\ ~last'.ex.out.raised THEN 1 ELSE 0)
      ]_vars

\* two executor calls, the second answered from the memo and logged
C7_Witness ==
    /\ last.ex.called /\ last.ex.hit /\ Len(last.ex.lines) = 1
    /\ log.sql = 2 /\ execCalls = 2

\* C8: every call of a public function leaves a call record in the log.
C8_EveryPublicCallLogged == log.call = ncalls

\* C9: the memo never holds more than maxsize keys, no key twice, and a miss
\* stored in a full memo evicts exactly one entry, one whose last use is the
\* oldest.
C9_BoundedLeastRecentlyUsed ==
    /\ [](/\ Len(memo) <= maxsize
          /\ Cardinality({memo[i].key : i \in 1..Len(memo)}) = Len(memo))
    /\ [][(/\ CallStep /\ last'.ex.called /\ ~last'.ex.out.raised
           /\ ~Cached(memo, last'.ex.key)
           /\ Len(memo) = maxsize)
          => LET kept == {memo'[i].key : i \in 1..Len(memo')}
                 gone == {i \in 1..Len(memo) : memo[i].key \notin kept}
             IN /\ Cached(memo', last'.ex.key)
                /\ Cardinality(gone) = 1
                /\ \A i \in gone : \A j \in 1..Len(memo) : memo[i].used <= memo[j].used
         ]_vars

\* a full memo that has evicted the second key stored and still holds the
\* first, which was used again in between
C9_Witness ==
    /\ Len(memo) = maxsize
    /\ Cached(memo, WarmCache(1, 1)[1].key)
    /\ ~Cached(memo, WarmCache(2, 2)[1].key)

\* C10: a miss with the file present opens one connection and closes it,
\* whether the read returns or raises; a miss with the file absent raises
\* not-found, opens nothing and stores nothing, so the same query asked again
\* is a miss again; no connection stays open after a call.
C10_ConnectionLifecycle ==
    [][CallStep =>
         LET e == last'.ex
             miss == e.called /\ ~Cached(memo, e.key)
         IN /\ openConns' = 0
            /\ (miss /\ dbExists) => (e.opened = 1 /\ e.closed = 1)
            /\ (miss /\ ~dbExists) =>
                 (e.out = Raised(NotFound) /\ e.opened = 0 /\ memo' = memo)
            /\ ~miss => e.opened = 0
            /\ (e.called /\ last.ex.called /\ last.ex.out = Raised(NotFound)
                  /\ e.key = last.ex.key /\ dbExists) => e.opened = 1
      ]_vars

\* a read that failed inside SQLite, after the connection was opened
C10_Witness ==
    /\ last.ex.called /\ last.ex.out.raised
    /\ last.ex.out.error.type = "DatabaseError"
    /\ last.ex.opened = 1 /\ last.ex.closed = 1
    /\ openConns = 0

====
